---- MODULE Spec2Model ----
(***************************************************************************)
(* Model of binwalk's MagicParser (src/src/binwalk/parser.py): the magic   *)
(* line parser, the integer-to-raw-string encoder, the filtered signature  *)
(* catalog built by parse/parse_file, the regex set built from it and the  *)
(* candidate scanner.                                                      *)
(*                                                                         *)
(* A str/bytes object is a sequence of byte values 0..255; a magic file is *)
(* a sequence of lines, each ending in a newline as readlines() gives it.  *)
(***************************************************************************)
EXTENDS Integers, Sequences, FiniteSets, TLC

VARIABLES
    signatures,       \* self.signatures: offset -> list of conditions
    signature_count,  \* self.signature_count
    signature_set,    \* self.signature_set: set of regex sources, or Absent
    fd,               \* the temporary magic file self.fd: [closed, data, pos]
    filter,           \* the MagicFilter collaborator: description -> decision
    pc,               \* "idle", "parse" (loop of parse) or "parse_file" (loop of parse_file)
    files,            \* argument of the running load call: list of [name, kind, lines]
    fidx,             \* index in files of the file parse is at
    include,          \* local of parse_file
    line_count,       \* local of parse_file
    error,            \* exception raised by the last load call, or NoError
    warnings,         \* indices in files reported as missing by the running/last call
    opened,           \* indices in files handed to parse_file by the running/last call
    history,          \* the calls of public methods of the session so far, in order
    scan,             \* last find_signature_candidates call: [data, end, result], or NoScan
    enc,              \* _to_string call: [value, size, endianess, result]
    entry             \* _parse_line call: [line, result]

vars ==
    <<signatures, signature_count, signature_set, fd, filter, pc, files, fidx,
      include, line_count, error, warnings, opened, history, scan, enc, entry>>

-----------------------------------------------------------------------------
(* Bounds of the model *)

\* size of one session: each path named in a load call, each line of the file
\* at such a path and each call of another public method counts one
MaxSession == 4
\* length of the scanned buffers
MaxBuf == 3
\* number of calls of public methods in one session
MaxCalls == 2

-----------------------------------------------------------------------------
(* Strings *)

\* ASCII decimal digit
IsDigit(c) == c >= 48 /\ c <= 57

\* whitespace as str.split() sees it: the ASCII whitespace, the separators
\* 0x1C-0x1F, NEL (0x85) and the no-break space (0xA0)
IsSpace(c) == c \in {9, 10, 11, 12, 13, 28, 29, 30, 31, 32, 133, 160}

\* the characters re.escape puts a backslash before:
\* ()[]{}?*+-|^$\.&~# and space, \t, \n, \r, \v, \f
IsSpecial(c) ==
    c \in {40, 41, 91, 93, 123, 125, 63, 42, 43, 45, 124, 94, 36, 92, 46, 38, 126, 35,
           32, 9, 10, 13, 11, 12}

\* s.startswith(pre)
StartsWith(s, pre) == Len(s) >= Len(pre) /\ SubSeq(s, 1, Len(pre)) = pre

\* sub in s
Contains(s, sub) ==
    \E i \in 1..(Len(s) - Len(sub) + 1) : SubSeq(s, i, i + Len(sub) - 1) = sub

\* s[n:] for a 0-based n
Drop(s, n) == SubSeq(s, n + 1, Len(s))

\* s[::-1]
Reverse(s) == [i \in 1..Len(s) |-> s[Len(s) + 1 - i]]

\* binwalk.compat.bytes2str: the same bytes as a str (latin-1), no byte changes
bytes2str(s) == s

\* s.replace(old, new), old non-empty
RECURSIVE replace(_, _, _)
replace(s, old, new) ==
    IF s = <<>> THEN <<>>
    ELSE IF StartsWith(s, old) THEN new \o replace(Drop(s, Len(old)), old, new)
    ELSE <<Head(s)>> \o replace(Tail(s), old, new)

RECURSIVE splitFrom(_, _, _)
splitFrom(s, i, cur) ==
    IF i > Len(s) THEN (IF cur = <<>> THEN <<>> ELSE <<cur>>)
    ELSE IF IsSpace(s[i])
         THEN (IF cur = <<>> THEN <<>> ELSE <<cur>>) \o splitFrom(s, i + 1, <<>>)
         ELSE splitFrom(s, i + 1, Append(cur, s[i]))

\* s.split(): the maximal runs of non-whitespace
split(s) == splitFrom(s, 1, <<>>)

\* ' '.join(parts)
RECURSIVE join(_)
join(parts) ==
    IF parts = <<>> THEN <<>>
    ELSE IF Len(parts) = 1 THEN parts[1]
    ELSE parts[1] \o <<32>> \o join(Tail(parts))

\* s.strip(chars) for a one-character chars
RECURSIVE lstrip(_, _)
lstrip(s, c) == IF s # <<>> /\ Head(s) = c THEN lstrip(Tail(s), c) ELSE s

strip(s, c) == Reverse(lstrip(Reverse(lstrip(s, c)), c))

\* value of a hexadecimal digit, -1 for any other character
HexVal(c) ==
    IF IsDigit(c) THEN c - 48
    ELSE IF c >= 97 /\ c <= 102 THEN c - 87
    ELSE IF c >= 65 /\ c <= 70 THEN c - 55
    ELSE -1

\* binwalk.compat.string_decode: backslash escapes decoded into raw bytes
RECURSIVE string_decode(_)
string_decode(s) ==
    IF s = <<>> THEN <<>>
    ELSE IF Head(s) = 92 /\ Len(s) >= 4 /\ s[2] = 120
            /\ HexVal(s[3]) >= 0 /\ HexVal(s[4]) >= 0
         THEN <<16 * HexVal(s[3]) + HexVal(s[4])>> \o string_decode(Drop(s, 4))
    ELSE IF Head(s) = 92 /\ Len(s) >= 2 /\ s[2] = 92
         THEN <<92>> \o string_decode(Drop(s, 2))
    ELSE IF Head(s) = 92 /\ Len(s) >= 2 /\ s[2] = 110
         THEN <<10>> \o string_decode(Drop(s, 2))
    ELSE IF Head(s) = 92 /\ Len(s) >= 2 /\ s[2] = 116
         THEN <<9>> \o string_decode(Drop(s, 2))
    ELSE <<Head(s)>> \o string_decode(Tail(s))

\* value of the digit string s in the given base, -1 if s is empty or has a
\* character that is no digit of the base
RECURSIVE DigitsValue(_, _, _)
DigitsValue(s, base, acc) ==
    IF s = <<>> THEN acc
    ELSE IF HexVal(Head(s)) < 0 \/ HexVal(Head(s)) >= base THEN -1
    ELSE DigitsValue(Tail(s), base, acc * base + HexVal(Head(s)))

Invalid == [ok |-> FALSE, val |-> 0]

\* binwalk.common.str2int: an integer numeral literal, decimal, hexadecimal (0x..)
\* or octal (0..), with an optional sign; Invalid when it is none of them
str2int(s) ==
    LET neg  == s # <<>> /\ Head(s) = 45
        body == IF neg THEN Tail(s) ELSE s
        mag  == IF body = <<>> THEN -1
                ELSE IF StartsWith(body, <<48, 120>>) /\ Len(body) > 2
                     THEN DigitsValue(Drop(body, 2), 16, 0)
                ELSE IF Head(body) = 48 /\ Len(body) > 1
                     THEN DigitsValue(Tail(body), 8, 0)
                ELSE DigitsValue(body, 10, 0)
    IN  IF mag < 0 THEN Invalid
        ELSE [ok |-> TRUE, val |-> IF neg THEN 0 - mag ELSE mag]

-----------------------------------------------------------------------------
(* Class constants *)

BIG_ENDIAN == "big"
LITTLE_ENDIAN == "little"

\* WILDCARD = 'x'
WILDCARD == <<120>>

FILTER_INCLUDE == "INCLUDE"
FILTER_EXCLUDE == "EXCLUDE"
\* the call filter.filter(description) raises instead of returning
FILTER_RAISES == "RAISES"

\* 'string', 'be', 'byte', 'short', 'long', 'quad'
W_string == <<115, 116, 114, 105, 110, 103>>
W_be == <<98, 101>>
W_byte == <<98, 121, 116, 101>>
W_short == <<115, 104, 111, 114, 116>>
W_long == <<108, 111, 110, 103>>
W_quad == <<113, 117, 97, 100>>

-----------------------------------------------------------------------------
(* _to_string *)

\* value >> (8*i), on Python's unbounded integers (floor for negative values)
RECURSIVE ShiftRight8(_, _)
ShiftRight8(value, i) == IF i = 0 THEN value ELSE ShiftRight8(value \div 256, i - 1)

\* _to_string with the reversal of the big-endian branch left out
to_string_noreverse(value, size, endianess) ==
    [i \in 1..size |-> ShiftRight8(value, i - 1) % 256]

\* MagicParser._to_string
to_string(value, size, endianess) ==
    LET data == [i \in 1..size |-> ShiftRight8(value, i - 1) % 256]
    IN  IF endianess # LITTLE_ENDIAN THEN Reverse(data) ELSE data

-----------------------------------------------------------------------------
(* _parse_line *)

NoEntry == [kind |-> "none"]
Raised == [kind |-> "raise"]

\* the length chosen from the type keyword (it stays 0 for any other keyword)
FieldLength(type) ==
    IF type = W_byte THEN 1
    ELSE IF Contains(type, W_short) THEN 2
    ELSE IF Contains(type, W_long) THEN 4
    ELSE IF Contains(type, W_quad) THEN 8
    ELSE 0

\* line_parts of _parse_line
LineParts(line) == split(replace(bytes2str(line), <<92, 32>>, <<92, 120, 50, 48>>))

\* MagicParser._parse_line: NoEntry (None), Raised (an exception) or the entry
parse_line(line) ==
    IF Len(line) = 0 \/ line[1] < 48 \/ line[1] > 57 THEN NoEntry
    ELSE
    LET line_parts == LineParts(line) IN
    IF Len(line_parts) < 3 THEN Raised
    ELSE
    LET offset      == str2int(line_parts[1])
        type        == line_parts[2]
        condition   == string_decode(line_parts[3])
        description == join(Drop(line_parts, 3))
    IN
    IF ~offset.ok THEN Raised
    ELSE IF Contains(type, W_string) \/ condition = WILDCARD
    THEN [kind |-> "entry", offset |-> offset.val, type |-> type,
          condition |-> condition, description |-> description,
          length |-> Len(condition)]
    ELSE
    LET endianess == IF StartsWith(type, W_be) THEN BIG_ENDIAN ELSE LITTLE_ENDIAN
        intval    == str2int(strip(condition, 76))
        length    == FieldLength(type)
    IN
    IF ~intval.ok THEN Raised
    ELSE [kind |-> "entry", offset |-> offset.val, type |-> type,
          condition |-> to_string(intval.val, length, endianess),
          description |-> description, length |-> length]

-----------------------------------------------------------------------------
(* Regular expressions: a compiled pattern is identified by its source, as   *)
(* re.compile returns the same (equal) object for the same source.           *)

\* re.escape: a backslash before each special character, any other byte kept
RECURSIVE re_escape(_)
re_escape(s) ==
    IF s = <<>> THEN <<>>
    ELSE (IF IsSpecial(Head(s)) THEN <<92, Head(s)>> ELSE <<Head(s)>>)
         \o re_escape(Tail(s))

\* the atoms of a pattern source as re.compile reads the sources built here:
\* '.' is any byte but newline, backslash and a special character is that
\* character, any other byte is itself
RECURSIVE Atoms(_)
Atoms(src) ==
    IF src = <<>> THEN <<>>
    ELSE IF Head(src) = 46 THEN <<[any |-> TRUE, ch |-> 0]>> \o Atoms(Tail(src))
    ELSE IF Head(src) = 92 /\ Len(src) >= 2
         THEN <<[any |-> FALSE, ch |-> src[2]]>> \o Atoms(Drop(src, 2))
    ELSE <<[any |-> FALSE, ch |-> Head(src)]>> \o Atoms(Tail(src))

\* the pattern matches in data starting at the 0-based position p
MatchAt(atoms, data, p) ==
    /\ p >= 0
    /\ p + Len(atoms) <= Len(data)
    /\ \A k \in 1..Len(atoms) :
          IF atoms[k].any THEN data[p + k] # 10 ELSE data[p + k] = atoms[k].ch

\* regex.finditer(data): the starts of the matches, leftmost first, each search
\* resuming where the previous match ended (one past it for an empty match)
RECURSIVE FindIter(_, _, _)
FindIter(atoms, data, pos) ==
    LET starts == {p \in pos..Len(data) : MatchAt(atoms, data, p)} IN
    IF starts = {} THEN {}
    ELSE LET p == CHOOSE q \in starts : \A r \in starts : q <= r
         IN  {p} \cup FindIter(atoms, data,
                               IF Len(atoms) = 0 THEN p + 1 ELSE p + Len(atoms))

finditer(src, data) == FindIter(Atoms(src), data, 0)

\* sorted(list(S)) for a set of integers
RECURSIVE Sorted(_)
Sorted(S) ==
    IF S = {} THEN <<>>
    ELSE LET m == CHOOSE q \in S : \A r \in S : q <= r
         IN  <<m>> \o Sorted(S \ {m})

-----------------------------------------------------------------------------
(* build_signature_set, find_signature_candidates *)

\* the regex compiled for one condition of the catalog
CompileSig(sig) == IF sig = WILDCARD THEN <<46>> ELSE re_escape(sig)

\* MagicParser.build_signature_set
build_signature_set(sigs) ==
    UNION {{CompileSig(sigs[offset][i]) : i \in 1..Len(sigs[offset])} :
             offset \in DOMAIN sigs}

\* find_signature_candidates keeping the matches that start at end as well
find_signature_candidates_le(sigset, data, end) ==
    Sorted(UNION {{p \in finditer(regex, bytes2str(data)) : p <= end} :
                    regex \in sigset})

\* MagicParser.find_signature_candidates, on the regex set self.signature_set
find_signature_candidates(sigset, data, end) ==
    Sorted(UNION {{p \in finditer(regex, bytes2str(data)) : p < end} :
                    regex \in sigset})

\* self.signatures[offset].append(condition) without the test for membership
AddCondition_dup(sigs, offset, condition) ==
    LET withKey == IF offset \in DOMAIN sigs THEN sigs ELSE sigs @@ (offset :> <<>>)
    IN  [withKey EXCEPT ![offset] = Append(@, condition)]

\* lines 156-160 of parse_file: the condition enters the list of its offset
\* unless it is there already
AddCondition(sigs, offset, condition) ==
    LET withKey == IF offset \in DOMAIN sigs THEN sigs ELSE sigs @@ (offset :> <<>>)
    IN  IF \E i \in 1..Len(withKey[offset]) : withKey[offset][i] = condition
        THEN withKey
        ELSE [withKey EXCEPT ![offset] = Append(@, condition)]


-----------------------------------------------------------------------------
(* Inputs: magic file lines, files, filters, buffers *)

\* '0 string AB Hi\n'
LineAB ==
    <<48, 32, 115, 116, 114, 105, 110, 103, 32, 65, 66, 32, 72, 105, 10>>
\* '4 string AB Noise\n'
LineAB4 ==
    <<52, 32, 115, 116, 114, 105, 110, 103, 32, 65, 66, 32, 78, 111, 105, 115, 101, 10>>
\* '0 byte 0x78 Hi\n'
LineByteX ==
    <<48, 32, 98, 121, 116, 101, 32, 48, 120, 55, 56, 32, 72, 105, 10>>
\* '0 string x Noise\n'
LineWild ==
    <<48, 32, 115, 116, 114, 105, 110, 103, 32, 120, 32, 78, 111, 105, 115, 101, 10>>
\* '>4 byte 1 more\n'
LineCont ==
    <<62, 52, 32, 98, 121, 116, 101, 32, 49, 32, 109, 111, 114, 101, 10>>
\* '0 string\n'
LineShort ==
    <<48, 32, 115, 116, 114, 105, 110, 103, 10>>
\* '0 short zz Hi\n'
LineBadInt ==
    <<48, 32, 115, 104, 111, 114, 116, 32, 122, 122, 32, 72, 105, 10>>
\* '0q string AB Hi\n'
LineBadOff ==
    <<48, 113, 32, 115, 116, 114, 105, 110, 103, 32, 65, 66, 32, 72, 105, 10>>
\* '0 belong 0x1234 BE value\n'
LineBelong ==
    <<48, 32, 98, 101, 108, 111, 110, 103, 32, 48, 120, 49, 50, 51, 52, 32, 66, 69, 32,
      118, 97, 108, 117, 101, 10>>
\* '0x10 leshort 0x1234L LE\\ value\n'
LineLeshort ==
    <<48, 120, 49, 48, 32, 108, 101, 115, 104, 111, 114, 116, 32, 48, 120, 49, 50, 51,
      52, 76, 32, 76, 69, 92, 32, 118, 97, 108, 117, 101, 10>>
\* '8 quad 1 Q\n'
LineQuad ==
    <<56, 32, 113, 117, 97, 100, 32, 49, 32, 81, 10>>
\* '0 beshort -2 Hi\n'
LineNeg ==
    <<48, 32, 98, 101, 115, 104, 111, 114, 116, 32, 45, 50, 32, 72, 105, 10>>
\* '0 string \\x78 Hi\n'
LineEscX ==
    <<48, 32, 115, 116, 114, 105, 110, 103, 32, 92, 120, 55, 56, 32, 72, 105, 10>>
\* '0 string A\\ B Hi\n'
LineEscSp ==
    <<48, 32, 115, 116, 114, 105, 110, 103, 32, 65, 92, 32, 66, 32, 72, 105, 10>>
\* '0 foo 1 Hi\n'
LineFoo ==
    <<48, 32, 102, 111, 111, 32, 49, 32, 72, 105, 10>>
\* '2 string AA\n'
LineNoDesc ==
    <<50, 32, 115, 116, 114, 105, 110, 103, 32, 65, 65, 10>>
\* '\n'
LineBlank == <<10>>
\* '0 string AA Hi\n'
LineAA ==
    <<48, 32, 115, 116, 114, 105, 110, 103, 32, 65, 65, 32, 72, 105, 10>>
\* '0 string B Hi\n'
LineB ==
    <<48, 32, 115, 116, 114, 105, 110, 103, 32, 66, 32, 72, 105, 10>>

\* the lines the files of a load session are made of
LoadLines ==
    {LineAB, LineAB4, LineByteX, LineCont, LineShort, LineBadOff, LineBadInt}

\* the lines _parse_line is applied to on its own
ParseLines ==
    LoadLines \cup {LineWild, LineBelong, LineLeshort, LineQuad,
                    LineNeg, LineEscX, LineEscSp, LineFoo, LineNoDesc, LineBlank, LineAA, LineB, <<>>}

\* self._parse_line(line), tabulated for the lines of the inputs
Parsed == [line \in ParseLines |-> parse_line(line)]

\* the descriptions of the entries of the load session's lines
Descriptions ==
    {parse_line(l).description : l \in {m \in LoadLines : parse_line(m).kind = "entry"}}

\* the filters: for each of those descriptions, filter() returns INCLUDE,
\* returns EXCLUDE or raises
Filters == [Descriptions -> {FILTER_INCLUDE, FILTER_EXCLUDE, FILTER_RAISES}]

\* the sequences of at most n lines
LineSeqs(n) == UNION {[1..m -> LoadLines] : m \in 0..n}

\* a path names a regular file, nothing, or a directory
FileKinds == {"file", "missing", "dir"}

\* the lists of nf paths (each of one kind) that share out the lines ls
FileListsOf(ls, nf) ==
    {[i \in 1..nf |->
        [name  |-> i,
         kind  |-> kd[i],
         lines |-> SubSeq(ls, (IF i = 1 THEN 0 ELSE cut[i - 1]) + 1, cut[i])]] :
       cut \in {c \in [1..nf -> 0..Len(ls)] :
                  /\ c[nf] = Len(ls)
                  /\ \A i \in 1..(nf - 1) : c[i] <= c[i + 1]},
       kd \in [1..nf -> FileKinds]}

\* only a regular file has lines
WellFormedFiles(fs) == \A i \in 1..Len(fs) : fs[i].kind # "file" => fs[i].lines = <<>>

\* the byte values the scanned buffers are made of: 'A', 'B', newline
ScanBytes == {65, 66, 10}

\* the buffers of at most MaxBuf bytes
Buffers == UNION {[1..m -> ScanBytes] : m \in 0..MaxBuf}

\* the buffer scanned in a load session: 'xAB'
LoadBuffers == {<<120, 65, 66>>}

\* the lines loaded before the scans of the scan-only specification; their
\* conditions are 'AA', 'AB', 'B', the wildcard, and the empty condition of an
\* unknown type
ScanLines == <<LineAA, LineAB, LineB, LineWild, LineFoo>>

\* the integers given to _to_string
EncValues ==
    {0, 1, 120, 255, 256, 4660, 65535, 65536, 305419896, 2147483647,
     -1, -2, -256, -2147483647}

EncSizes == {0, 1, 2, 4, 8}

-----------------------------------------------------------------------------
(* State *)

EmptyDict == [o \in {} |-> <<>>]
NoSignatureSet == [defined |-> FALSE, regexes |-> {}]
NoError == [raised |-> FALSE, wrapped |-> FALSE, file |-> 0, line |-> 0]
NoScan == [called |-> FALSE, done |-> FALSE, raised |-> FALSE, data |-> <<>>,
           end |-> 0, result |-> <<>>]
NoEnc == [called |-> FALSE, done |-> FALSE, value |-> 0, size |-> 0,
          endianess |-> LITTLE_ENDIAN, result |-> <<>>]
NoParse == [called |-> FALSE, done |-> FALSE, line |-> <<>>, result |-> NoEntry]

\* tempfile.NamedTemporaryFile(): an open, empty file at position 0
NewTempFile == [closed |-> FALSE, data |-> <<>>, pos |-> 0]

\* fd.write(line) on an open file: the bytes go in at the position, over the
\* bytes that are there, and the position moves past them
FileWrite(f, line) ==
    [f EXCEPT !.data = SubSeq(f.data, 1, f.pos) \o line
                         \o SubSeq(f.data, f.pos + Len(line) + 1, Len(f.data)),
              !.pos  = f.pos + Len(line)]

\* the bytes of a sequence of lines
RECURSIVE Concat(_)
Concat(ls) == IF ls = <<>> THEN <<>> ELSE Head(ls) \o Concat(Tail(ls))

\* fd.seek(0) on an open file
FileSeekStart(f) == [f EXCEPT !.pos = 0]

\* fd.close(): the temporary file is closed (and deleted)
FileClose(f) == [f EXCEPT !.closed = TRUE]

\* MagicParser.__init__: no signature_set attribute yet
InitObject ==
    /\ signatures = EmptyDict
    /\ signature_count = 0
    /\ signature_set = NoSignatureSet
    /\ fd = NewTempFile
    /\ pc = "idle"
    /\ files = <<>>
    /\ fidx = 0
    /\ include = FALSE
    /\ line_count = 0
    /\ error = NoError
    /\ warnings = {}
    /\ opened = {}
    /\ history = <<>>
    /\ scan = NoScan

Init ==
    /\ InitObject
    /\ filter \in Filters
    /\ enc = NoEnc
    /\ entry = NoParse

-----------------------------------------------------------------------------
(* Loading: parse, parse_file *)

\* the files named so far in the session, and their lines
RECURSIVE FilesNamed(_)
FilesNamed(calls) ==
    IF calls = <<>> THEN 0 ELSE Len(Head(calls).files) + FilesNamed(Tail(calls))
RECURSIVE LinesIn(_)
LinesIn(fs) == IF fs = <<>> THEN 0 ELSE Len(Head(fs).lines) + LinesIn(Tail(fs))
RECURSIVE LinesNamed(_)
LinesNamed(calls) ==
    IF calls = <<>> THEN 0 ELSE LinesIn(Head(calls).files) + LinesNamed(Tail(calls))

\* os.path.exists(fname): true of a regular file and of a directory
Exists(f) == f.kind # "missing"

\* io.FileIO(file_name).readlines() returns the lines of a regular file, and
\* raises for a missing path and for a directory
Readable(f) == f.kind = "file"

\* parse_file line 139: include = False
InitialInclude == FALSE

\* a filter that includes every description
FilterIncludes_all(description) == TRUE

\* parse_file line 151: self.filter.filter(description) == FILTER_INCLUDE
FilterIncludes(description) == filter[description] = FILTER_INCLUDE

\* parse_file line 151: the call self.filter.filter(description) raises
FilterRaises(description) == filter[description] = FILTER_RAISES

\* the exception of parse_file with a 0-based line number
ParseFileError_zero(file_name, count) ==
    [raised |-> TRUE, wrapped |-> TRUE, file |-> file_name, line |-> count - 1]

\* parse_file line 171: the exception names the file and line_count
ParseFileError(file_name, count) ==
    [raised |-> TRUE, wrapped |-> TRUE, file |-> file_name, line |-> count]

\* parse line 125: the ValueError of seek on a closed file, which parse does not
\* catch; it names no file and no line
SeekError == [raised |-> TRUE, wrapped |-> FALSE, file |-> 0, line |-> 0]

\* the record of a call of a public method: the files it names, and whether
\* the temporary file was closed when it was made
Call(method, fs) == [method |-> method, files |-> fs, closed |-> fd.closed]

\* the method the user called last
Method == history[Len(history)].method

\* the calls of the session that name no path
RECURSIVE OtherCalls(_)
OtherCalls(calls) ==
    IF calls = <<>> THEN 0
    ELSE (IF Head(calls).files = <<>> THEN 1 ELSE 0) + OtherCalls(Tail(calls))

\* what is left of the size of the session
Room == MaxSession - (FilesNamed(history) + LinesNamed(history) + OtherCalls(history))

\* parse(file_name) is called with a list of files
Parse(fs) ==
    /\ pc = "idle"
    /\ Len(history) < MaxCalls
    /\ pc' = "parse"
    /\ files' = fs
    /\ fidx' = 1
    /\ error' = NoError
    /\ warnings' = {}
    /\ opened' = {}
    /\ history' = Append(history, Call("parse", fs))
    /\ scan' = NoScan
    /\ UNCHANGED <<signatures, signature_count, signature_set, fd, filter, include,
                   line_count, enc, entry>>

ParseCall ==
    \E nf \in 1..Room :
      \E ls \in LineSeqs(Room - nf) :
        \E fs \in FileListsOf(ls, nf) :
          WellFormedFiles(fs) /\ Parse(fs)

\* parse lines 119-123: the file does not exist, a warning is written
ParseMissing ==
    /\ pc = "parse"
    /\ fidx <= Len(files)
    /\ ~Exists(files[fidx])
    /\ warnings' = warnings \cup {fidx}
    /\ fidx' = fidx + 1
    /\ UNCHANGED <<signatures, signature_count, signature_set, fd, filter, pc, files,
                   include, line_count, error, opened, history, scan, enc, entry>>

\* parse lines 119-121 and parse_file lines 139-140: the path exists
ParseFileStart ==
    /\ pc = "parse"
    /\ fidx <= Len(files)
    /\ Exists(files[fidx])
    /\ pc' = "parse_file"
    /\ opened' = opened \cup {fidx}
    /\ include' = InitialInclude
    /\ line_count' = 0
    /\ UNCHANGED <<signatures, signature_count, signature_set, fd, filter, files, fidx,
                   error, warnings, history, scan, enc, entry>>

\* parse_file(file_name) is called by the user, lines 139-140
ParseFile(f) ==
    /\ pc = "idle"
    /\ Len(history) < MaxCalls
    /\ pc' = "parse_file"
    /\ files' = <<f>>
    /\ fidx' = 1
    /\ error' = NoError
    /\ warnings' = {}
    /\ opened' = {1}
    /\ include' = InitialInclude
    /\ line_count' = 0
    /\ history' = Append(history, Call("parse_file", <<f>>))
    /\ scan' = NoScan
    /\ UNCHANGED <<signatures, signature_count, signature_set, fd, filter, enc, entry>>

ParseFileCall ==
    /\ Room >= 1
    /\ \E ls \in LineSeqs(Room - 1) :
         \E fs \in FileListsOf(ls, 1) :
           WellFormedFiles(fs) /\ ParseFile(fs[1])

\* parse_file lines 143, 170-171: io.FileIO(file_name).readlines() raises, the
\* exception is wrapped with the line count, which is still 0
ParseFileOpenRaise ==
    /\ pc = "parse_file"
    /\ line_count = 0
    /\ ~Readable(files[fidx])
    /\ error' = ParseFileError(files[fidx].name, line_count)
    /\ pc' = "idle"
    /\ UNCHANGED <<signatures, signature_count, signature_set, fd, filter, files, fidx,
                   include, line_count, warnings, opened, history, scan, enc, entry>>

\* the line the loop of parse_file is about to read
CurrentLine == files[fidx].lines[line_count + 1]

\* parse_file lines 147, 151: _parse_line raises on the line, or the filter
\* raises on the description of its entry
EntryRaises(e) ==
    \/ e.kind = "raise"
    \/ (e.kind = "entry" /\ FilterRaises(e.description))

\* parse_file lines 149-151: the line starts a signature the filter includes
Admits(e) == e.kind = "entry" /\ FilterIncludes(e.description)

\* parse_file lines 149-164: include after the line; a line that starts no
\* signature leaves it as it is
IncludeAfter(e) == IF e.kind = "entry" THEN Admits(e) ELSE include

\* parse_file lines 153-160: the counter and the catalog after the line
CountAfter(e) == IF Admits(e) THEN signature_count + 1 ELSE signature_count

CatalogAfterEntry(e) ==
    IF Admits(e) THEN AddCondition(signatures, e.offset, e.condition) ELSE signatures

\* parse_file lines 143-167: one line that does not raise
ParseFileLine ==
    /\ pc = "parse_file"
    /\ Readable(files[fidx])
    /\ line_count < Len(files[fidx].lines)
    /\ \E e \in {Parsed[CurrentLine]} :
         /\ ~EntryRaises(e)
         /\ IncludeAfter(e) => ~fd.closed
         /\ line_count' = line_count + 1
         /\ include' = IncludeAfter(e)
         /\ signature_count' = CountAfter(e)
         /\ signatures' = CatalogAfterEntry(e)
         /\ fd' = IF IncludeAfter(e) THEN FileWrite(fd, CurrentLine) ELSE fd
    /\ UNCHANGED <<signature_set, filter, pc, files, fidx, error, warnings, opened,
                   history, scan, enc, entry>>

\* parse_file lines 145-151, 170-171: _parse_line or the filter raises on the
\* line, which is counted; the exception is wrapped and leaves parse_file and
\* parse (which does not catch it)
ParseFileRaise ==
    /\ pc = "parse_file"
    /\ Readable(files[fidx])
    /\ line_count < Len(files[fidx].lines)
    /\ EntryRaises(Parsed[CurrentLine])
    /\ line_count' = line_count + 1
    /\ error' = ParseFileError(files[fidx].name, line_count + 1)
    /\ pc' = "idle"
    /\ UNCHANGED <<signatures, signature_count, signature_set, fd, filter, files, fidx,
                   include, warnings, opened, history, scan, enc, entry>>

\* parse_file lines 145-167, 170-171: self.fd.write raises because the
\* temporary file is closed, after the line is counted and catalogued
ParseFileWriteRaise ==
    /\ pc = "parse_file"
    /\ Readable(files[fidx])
    /\ line_count < Len(files[fidx].lines)
    /\ \E e \in {Parsed[CurrentLine]} :
         /\ ~EntryRaises(e)
         /\ IncludeAfter(e) /\ fd.closed
         /\ line_count' = line_count + 1
         /\ include' = IncludeAfter(e)
         /\ signature_count' = CountAfter(e)
         /\ signatures' = CatalogAfterEntry(e)
    /\ error' = ParseFileError(files[fidx].name, line_count + 1)
    /\ pc' = "idle"
    /\ UNCHANGED <<signature_set, fd, filter, files, fidx, warnings, opened, history,
                   scan, enc, entry>>

\* parse_file line 169: the lines are read, build_signature_set(); parse_file
\* returns to parse, or to the user who called it
ParseFileEnd ==
    /\ pc = "parse_file"
    /\ Readable(files[fidx])
    /\ line_count = Len(files[fidx].lines)
    /\ signature_set' = [defined |-> TRUE, regexes |-> build_signature_set(signatures)]
    /\ pc' = IF Method = "parse" THEN "parse" ELSE "idle"
    /\ fidx' = fidx + 1
    /\ UNCHANGED <<signatures, signature_count, fd, filter, files, include, line_count,
                   error, warnings, opened, history, scan, enc, entry>>

\* parse lines 125-126: the files are done, the temporary file is rewound
ParseReturn ==
    /\ pc = "parse"
    /\ fidx > Len(files)
    /\ ~fd.closed
    /\ fd' = FileSeekStart(fd)
    /\ pc' = "idle"
    /\ UNCHANGED <<signatures, signature_count, signature_set, filter, files, fidx,
                   include, line_count, error, warnings, opened, history, scan, enc,
                   entry>>

\* parse line 125: the temporary file is closed, seek raises
ParseSeekRaise ==
    /\ pc = "parse"
    /\ fidx > Len(files)
    /\ fd.closed
    /\ error' = SeekError
    /\ pc' = "idle"
    /\ UNCHANGED <<signatures, signature_count, signature_set, fd, filter, files, fidx,
                   include, line_count, warnings, opened, history, scan, enc, entry>>

\* build_signature_set() is called by the user
BuildSignatureSetCall ==
    /\ pc = "idle"
    /\ Len(history) < MaxCalls /\ Room >= 1
    /\ signature_set' = [defined |-> TRUE, regexes |-> build_signature_set(signatures)]
    /\ history' = Append(history, Call("build_signature_set", <<>>))
    /\ UNCHANGED <<signatures, signature_count, fd, filter, pc, files, fidx, include,
                   line_count, error, warnings, opened, scan, enc, entry>>

\* rm_magic_file() or cleanup() is called by the user: self.fd is closed
CleanupCall ==
    /\ pc = "idle"
    /\ Len(history) < MaxCalls /\ Room >= 1
    /\ fd' = FileClose(fd)
    /\ history' = Append(history, Call("cleanup", <<>>))
    /\ UNCHANGED <<signatures, signature_count, signature_set, filter, pc, files, fidx,
                   include, line_count, error, warnings, opened, scan, enc, entry>>

-----------------------------------------------------------------------------
(* Scanning *)

\* find_signature_candidates(data, end) as called on the object: AttributeError
\* when no load has set self.signature_set
ScanResult(data, end) ==
    IF signature_set.defined
    THEN [called |-> TRUE, done |-> TRUE, raised |-> FALSE, data |-> data, end |-> end,
          result |-> find_signature_candidates(signature_set.regexes, data, end)]
    ELSE [called |-> TRUE, done |-> TRUE, raised |-> TRUE, data |-> data, end |-> end,
          result |-> <<>>]

\* a scan between the load calls of a session
ScanLoaded ==
    /\ pc = "idle"
    /\ Len(history) < MaxCalls /\ Room >= 1
    /\ \E data \in LoadBuffers : scan' = ScanResult(data, Len(data))
    /\ history' = Append(history, Call("find_signature_candidates", <<>>))
    /\ UNCHANGED <<signatures, signature_count, signature_set, fd, filter, pc, files,
                   fidx, include, line_count, error, warnings, opened, enc, entry>>

\* the scan whose arguments the initial state holds
ScanCalled ==
    /\ pc = "idle"
    /\ scan.called /\ ~scan.done
    /\ scan' = ScanResult(scan.data, scan.end)
    /\ UNCHANGED <<signatures, signature_count, signature_set, fd, filter, pc, files,
                   fidx, include, line_count, error, warnings, opened, history, enc,
                   entry>>

Next ==
    \/ ParseCall
    \/ ParseMissing
    \/ ParseFileStart
    \/ ParseFileCall
    \/ ParseFileOpenRaise
    \/ ParseFileLine
    \/ ParseFileRaise
    \/ ParseFileWriteRaise
    \/ ParseFileEnd
    \/ ParseReturn
    \/ ParseSeekRaise
    \/ BuildSignatureSetCall
    \/ CleanupCall
    \/ ScanLoaded

Spec == Init /\ [][Next]_vars

-----------------------------------------------------------------------------
(* Scanning on its own: the object has loaded one file of admitted lines *)

\* the catalog after the admitted lines ls, from the catalog sigs
RECURSIVE CatalogAfter(_, _)
CatalogAfter(sigs, ls) ==
    IF ls = <<>> THEN sigs
    ELSE CatalogAfter(AddCondition(sigs, parse_line(Head(ls)).offset,
                                   parse_line(Head(ls)).condition), Tail(ls))

\* the state parse([f]) returns in, for a file f of well-formed lines and a
\* filter that includes them all
Loaded(ls) ==
    /\ signatures = CatalogAfter(EmptyDict, ls)
    /\ signature_count = Len(ls)
    /\ signature_set = [defined |-> TRUE,
                        regexes |-> build_signature_set(CatalogAfter(EmptyDict, ls))]
    /\ fd = FileSeekStart(FileWrite(NewTempFile, Concat(ls)))
    /\ filter = [d \in Descriptions |-> FILTER_INCLUDE]
    /\ pc = "idle"
    /\ files = <<[name |-> 1, kind |-> "file", lines |-> ls]>>
    /\ fidx = 2
    /\ include = (ls # <<>>)
    /\ line_count = Len(ls)
    /\ error = NoError
    /\ warnings = {}
    /\ opened = {1}
    /\ history = <<[method |-> "parse", files |-> files, closed |-> FALSE]>>

InitScan ==
    /\ \E data \in Buffers, end \in 0..(MaxBuf + 1) :
          scan = [called |-> TRUE, done |-> FALSE, raised |-> FALSE, data |-> data,
                  end |-> end, result |-> <<>>]
    /\ \E keep \in SUBSET (1..Len(ScanLines)) :
          Loaded(SelectSeq(ScanLines, LAMBDA l : \E i \in keep : ScanLines[i] = l))
    /\ enc = NoEnc
    /\ entry = NoParse

NextScan == ScanCalled

SpecScan == InitScan /\ [][NextScan]_vars

-----------------------------------------------------------------------------
(* The pure functions on their own: _to_string and _parse_line *)

InitPure ==
    /\ InitObject
    /\ filter = [d \in Descriptions |-> FILTER_INCLUDE]
    /\ \E value \in EncValues, size \in EncSizes,
          endianess \in {LITTLE_ENDIAN, BIG_ENDIAN} :
          enc = [called |-> TRUE, done |-> FALSE, value |-> value, size |-> size,
                 endianess |-> endianess, result |-> <<>>]
    /\ \E line \in ParseLines :
          entry = [called |-> TRUE, done |-> FALSE, line |-> line, result |-> NoEntry]

\* self._to_string(value, size, endianess) returns
CallToString ==
    /\ enc.called /\ ~enc.done
    /\ enc' = [enc EXCEPT !.done = TRUE,
                          !.result = to_string(enc.value, enc.size, enc.endianess)]
    /\ UNCHANGED <<signatures, signature_count, signature_set, fd, filter, pc, files,
                   fidx, include, line_count, error, warnings, opened, history, scan,
                   entry>>

\* self._parse_line(line) returns or raises
CallParseLine ==
    /\ entry.called /\ ~entry.done
    /\ entry' = [entry EXCEPT !.done = TRUE, !.result = parse_line(entry.line)]
    /\ UNCHANGED <<signatures, signature_count, signature_set, fd, filter, pc, files,
                   fidx, include, line_count, error, warnings, opened, history, scan,
                   enc>>

NextPure == CallToString \/ CallParseLine

SpecPure == InitPure /\ [][NextPure]_vars

-----------------------------------------------------------------------------
(* The lines given to the session, and what the filter says of them *)

Range(f) == {f[x] : x \in DOMAIN f}

FlatFile(c, i) ==
    [j \in 1..Len(history[c].files[i].lines) |->
        [call |-> c, file |-> i, idx |-> j, line |-> history[c].files[i].lines[j]]]

RECURSIVE FlatCall(_, _)
FlatCall(c, i) ==
    IF i > Len(history[c].files) THEN <<>> ELSE FlatFile(c, i) \o FlatCall(c, i + 1)

RECURSIVE FlatFrom(_)
FlatFrom(c) == IF c > Len(history) THEN <<>> ELSE FlatCall(c, 1) \o FlatFrom(c + 1)

\* every line of every file named in the session, in the order given
InputLines == FlatFrom(1)

DigitLeading(line) == Len(line) > 0 /\ IsDigit(line[1])

\* byte i of the line separates tokens: it is whitespace, and not the space of
\* an escaped space (backslash, space)
Separates(line, i) ==
    IsSpace(line[i]) /\ ~(line[i] = 32 /\ i > 1 /\ line[i - 1] = 92)

\* the positions at which the whitespace-separated tokens of the line start
TokenStarts(line) ==
    {i \in 1..Len(line) :
       ~Separates(line, i) /\ (i = 1 \/ Separates(line, i - 1))}

\* the n-th token of a line that has one
Token(line, n) ==
    LET s == CHOOSE i \in TokenStarts(line) :
               Cardinality({k \in TokenStarts(line) : k < i}) = n - 1
        e == CHOOSE j \in s..Len(line) :
               /\ \A k \in s..j : ~Separates(line, k)
               /\ (j = Len(line) \/ Separates(line, j + 1))
    IN  SubSeq(line, s, e)

IsOctalDigit(c) == c >= 48 /\ c <= 55
IsHexDigit(c) == IsDigit(c) \/ (c >= 97 /\ c <= 102) \/ (c >= 65 /\ c <= 70)

\* s is an integer literal: an optional minus sign, then decimal digits, 0x and
\* hexadecimal digits, or 0 and octal digits
IntegerLiteral(s) ==
    LET body == IF s # <<>> /\ s[1] = 45 THEN Tail(s) ELSE s IN
    \/ /\ Len(body) > 2 /\ body[1] = 48 /\ body[2] = 120
       /\ \A k \in 3..Len(body) : IsHexDigit(body[k])
    \/ /\ Len(body) > 1 /\ body[1] = 48
       /\ \A k \in 2..Len(body) : IsOctalDigit(body[k])
    \/ /\ Len(body) >= 1 /\ (body[1] # 48 \/ Len(body) = 1)
       /\ \A k \in 1..Len(body) : IsDigit(body[k])

\* the three malformations of a digit-leading line, read off its text
FewTokens(line) == Cardinality(TokenStarts(line)) < 3

BadOffset(line) == ~FewTokens(line) /\ ~IntegerLiteral(Token(line, 1))

\* the condition is numeric when the type does not contain 'string' and the
\* condition is not the wildcard marker; a trailing long suffix 'L' is allowed
BadNumericCondition(line) ==
    /\ ~FewTokens(line)
    /\ ~Contains(Token(line, 2), W_string)
    /\ string_decode(Token(line, 3)) # WILDCARD
    /\ ~IntegerLiteral(strip(string_decode(Token(line, 3)), 76))

\* the malformed lines among the lines of the inputs
MalformedLines ==
    {line \in ParseLines :
       /\ DigitLeading(line)
       /\ (FewTokens(line) \/ BadOffset(line) \/ BadNumericCondition(line))}

Malformed(line) == line \in MalformedLines
Parses(line) == Parsed[line].kind = "entry"
Included(line) == Parses(line) /\ filter[Parsed[line].description] = FILTER_INCLUDE
Excluded(line) == Parses(line) /\ filter[Parsed[line].description] = FILTER_EXCLUDE
Unfiltered(line) == Parses(line) /\ filter[Parsed[line].description] = FILTER_RAISES

\* the line belongs to an INCLUDE group: the most recent digit-leading line of
\* its file, itself included, parses and is INCLUDEd
InIncludeGroup(r) ==
    LET ls == history[r.call].files[r.file].lines
        leaders == {k \in 1..r.idx : DigitLeading(ls[k])}
    IN  /\ leaders # {}
        /\ Included(ls[CHOOSE k \in leaders : \A m \in leaders : m <= k])

\* the load of call c raises when it reaches the line: the line is malformed,
\* the filter raises on its description, or the line is to be written and the
\* temporary file was closed before the call
Fails(c, line) ==
    \/ Malformed(line)
    \/ Unfiltered(line)
    \/ (history[c].closed /\ Included(line))

\* file i of call c cannot be read: it is a directory, or it is missing and
\* parse_file was called on it without parse's existence check
OpenFails(c, i) ==
    \/ history[c].files[i].kind = "dir"
    \/ (history[c].files[i].kind = "missing" /\ history[c].method = "parse_file")

FileFails(c, i) ==
    \/ OpenFails(c, i)
    \/ \E j \in 1..Len(history[c].files[i].lines) : Fails(c, history[c].files[i].lines[j])

\* the first file of call c whose load raises, 0 if there is none
FirstFailFile(c) ==
    IF \E i \in 1..Len(history[c].files) : FileFails(c, i)
    THEN CHOOSE i \in 1..Len(history[c].files) :
           FileFails(c, i) /\ \A k \in 1..(i - 1) : ~FileFails(c, k)
    ELSE 0

\* the line of such a file at which the load raises, 0 if it cannot be read
FirstFailLine(c, i) ==
    IF OpenFails(c, i) THEN 0
    ELSE LET ls == history[c].files[i].lines
         IN  CHOOSE j \in 1..Len(ls) :
               Fails(c, ls[j]) /\ \A k \in 1..(j - 1) : ~Fails(c, ls[k])

LinesOf(recs) == [k \in 1..Len(recs) |-> recs[k].line]

\* the load calls of the session, and the last of them
LoadCalls == {c \in 1..Len(history) : history[c].method \in {"parse", "parse_file"}}
LastLoad == CHOOSE c \in LoadCalls : \A d \in LoadCalls : d <= c

\* the last load call returned
LastLoadReturned ==
    /\ FirstFailFile(LastLoad) = 0
    /\ ~(history[LastLoad].method = "parse" /\ history[LastLoad].closed)

\* the last load call raised at a malformed line
LastLoadMalformed ==
    LET ff == FirstFailFile(LastLoad) IN
    /\ ff # 0
    /\ FirstFailLine(LastLoad, ff) >= 1
    /\ Malformed(history[LastLoad].files[ff].lines[FirstFailLine(LastLoad, ff)])

\* every load call of the session was made with the temporary file open, and
\* none has raised
NoCallFailed ==
    \A c \in LoadCalls : ~history[c].closed /\ FirstFailFile(c) = 0

\* the conditions of the lines the filter INCLUDEs
AdmittedConditions ==
    {Parsed[r.line].condition : r \in {q \in Range(InputLines) : Included(q.line)}}

\* the conditions in the catalog
CatalogConditions ==
    UNION {Range(signatures[offset]) : offset \in DOMAIN signatures}

-----------------------------------------------------------------------------
(* Claims *)

\* C1: when every load call of the session has returned (none raised) and the
\* temporary file is open, the filtered output is the in-order subsequence of
\* all the lines of the files loaded in the session that belong to INCLUDE
\* groups: an INCLUDEd digit-leading line and the continuation lines after it,
\* up to the next digit-leading line of the file.
C1_AllIncludeGroupsWritten ==
    (pc = "idle" /\ LoadCalls # {} /\ NoCallFailed /\ ~fd.closed) =>
        fd.data = Concat(LinesOf(SelectSeq(InputLines, InIncludeGroup)))

\* a parse_file step on a validly parsed line the filter EXCLUDEs
ExcludedStep ==
    /\ pc = "parse_file"
    /\ line_count < Len(files[fidx].lines)
    /\ Excluded(CurrentLine)

\* no condition is in the catalog, is a regex of the set or gives a candidate
\* unless an INCLUDEd line has it
OnlyAdmittedConditions ==
    /\ CatalogConditions \subseteq AdmittedConditions
    /\ signature_set.regexes \subseteq {CompileSig(c) : c \in AdmittedConditions}
    /\ (scan.done /\ ~scan.raised) =>
          \A k \in 1..Len(scan.result) :
            \E c \in AdmittedConditions :
              MatchAt(Atoms(CompileSig(c)), scan.data, scan.result[k])

\* C2: a load step on a validly parsed line that the filter EXCLUDEs leaves
\* the catalog and the admitted-entry counter unchanged, and a condition that
\* only EXCLUDEd entries have is never in the catalog, never a matcher and
\* never the source of a candidate offset.
C2_ExcludeLeavesCatalog ==
    /\ [][ExcludedStep =>
            (signatures' = signatures /\ signature_count' = signature_count)]_vars
    /\ []OnlyAdmittedConditions

\* a scan of a buffer that holds the condition of an EXCLUDEd line, after a
\* load that admitted another entry
C2_Witness ==
    /\ scan.done /\ ~scan.raised
    /\ signature_count > 0
    /\ scan.result # <<>>
    /\ \E r \in Range(InputLines) :
          /\ Excluded(r.line)
          /\ Parsed[r.line].condition \notin AdmittedConditions
          /\ Contains(scan.data, Parsed[r.line].condition)

\* the error of a finished load call names the file and the line at which the
\* load first raised; a parse call none of whose files raised, on a closed
\* temporary file, raises the error of its seek
ErrorNamesLine ==
    IF FirstFailFile(LastLoad) # 0
    THEN /\ error.raised /\ error.wrapped
         /\ error.file = files[FirstFailFile(LastLoad)].name
         /\ error.line = FirstFailLine(LastLoad, FirstFailFile(LastLoad))
    ELSE IF history[LastLoad].method = "parse" /\ history[LastLoad].closed
         THEN error = SeekError
         ELSE ~error.raised

\* a malformed line that the load reaches is the line the error names
MalformedLineNamed ==
    \A i \in 1..Len(files) :
      \A j \in 1..Len(files[i].lines) :
        (/\ Malformed(files[i].lines[j])
         /\ \A k \in 1..(i - 1) : ~FileFails(LastLoad, k)
         /\ \A k \in 1..(j - 1) : ~Fails(LastLoad, files[i].lines[k]))
        => (error.raised /\ error.file = files[i].name /\ error.line = j)

\* C3 (as stated): a malformed line raises an error naming the file and the
\* 1-based line, and the files listed after it in the parse call are still
\* processed, as after a missing file.
C3_LaterFilesProcessed ==
    (/\ pc = "idle"
     /\ LoadCalls # {}
     /\ history[LastLoad].method = "parse"
     /\ LastLoadMalformed)
    =>
        /\ MalformedLineNamed
        /\ opened = {i \in 1..Len(files) : Exists(files[i])}
        /\ warnings = {i \in 1..Len(files) : ~Exists(files[i])}

\* C3 (amended): a malformed line that the load reaches (no earlier line or
\* file of the call having raised) raises an error naming the file and the
\* 1-based line; in general the error names the file and line at which the
\* load first raised, line 0 for a file that cannot be read; and the error
\* ends the parse call: the files listed after that file are neither
\* processed nor checked for existence, while the files after a missing file
\* are.
C3_ErrorEndsParse ==
    (pc = "idle" /\ LoadCalls # {}) =>
        LET ff   == FirstFailFile(LastLoad)
            last == IF ff = 0 THEN Len(files) ELSE ff
        IN  /\ ErrorNamesLine
            /\ MalformedLineNamed
            /\ history[LastLoad].method = "parse" =>
                  /\ opened = {i \in 1..last : Exists(files[i])}
                  /\ warnings = {i \in 1..last : ~Exists(files[i])}

\* a malformed line named by the error, in a file that a regular file with
\* lines follows in the list
C3_Witness ==
    /\ pc = "idle"
    /\ error.raised /\ error.wrapped
    /\ error.line >= 1
    /\ Malformed(files[error.file].lines[error.line])
    /\ error.file < Len(files)
    /\ files[Len(files)].kind = "file"
    /\ files[Len(files)].lines # <<>>

\* the condition token of a digit-leading line, before it is decoded
ConditionToken(line) == LineParts(line)[3]

\* C4: the match-any-byte regex is compiled only for an admitted entry whose
\* condition token is the wildcard marker itself, and an admitted entry whose
\* condition is the literal byte 0x78 from another token is stored as a
\* literal, apart from the wildcard.
C4_WildcardOnlyFromMarker ==
    (/\ pc = "idle"
     /\ LoadCalls # {}
     /\ NoCallFailed)
    =>
    /\ <<46>> \in signature_set.regexes =>
          \E r \in Range(InputLines) :
            Included(r.line) /\ ConditionToken(r.line) = WILDCARD
    /\ \A r \in Range(InputLines) :
          (Included(r.line) /\ ConditionToken(r.line) # WILDCARD) =>
              /\ Parsed[r.line].condition \in CatalogConditions
              /\ re_escape(Parsed[r.line].condition) \in signature_set.regexes

\* the regexes match somewhere in the scanned buffer below the bound
MatchesBelow(p) ==
    /\ p < scan.end
    /\ \E regex \in signature_set.regexes : MatchAt(Atoms(regex), scan.data, p)

\* C5: find_signature_candidates returns every position below the bound at
\* which a literal condition of the catalog occurs in the buffer, overlapping
\* occurrences included, and no position at which no regex matches.
C5_EveryOccurrenceFound ==
    (scan.done /\ ~scan.raised) =>
        /\ \A c \in CatalogConditions \ {WILDCARD} :
             \A p \in 0..Len(scan.data) :
               (/\ p < scan.end
                /\ p + Len(c) <= Len(scan.data)
                /\ SubSeq(scan.data, p + 1, p + Len(c)) = c)
               => p \in Range(scan.result)
        /\ \A k \in 1..Len(scan.result) : MatchesBelow(scan.result[k])

\* the candidates of the scanned buffer with no bound in the way
Unbounded ==
    find_signature_candidates(signature_set.regexes, scan.data, Len(scan.data) + 1)

\* C6: the result of find_signature_candidates is strictly ascending, every
\* offset is below the bound, it is empty for the bound 0, and it is the
\* unbounded result without the offsets at or above the bound (a match that
\* starts at bound-1 is kept, one that starts at bound is not, a bound beyond
\* the buffer removes nothing).
C6_AscendingBelowBound ==
    (scan.done /\ ~scan.raised) =>
        /\ \A i, j \in 1..Len(scan.result) : i < j => scan.result[i] < scan.result[j]
        /\ \A k \in 1..Len(scan.result) :
             scan.result[k] >= 0 /\ scan.result[k] < scan.end
        /\ scan.end = 0 => scan.result = <<>>
        /\ Range(scan.result) = {p \in Range(Unbounded) : p < scan.end}
        /\ scan.end > Len(scan.data) => scan.result = Unbounded

\* a scan that keeps a match starting at bound-1 that runs past the bound and
\* drops a match starting at the bound
C6_Witness ==
    /\ scan.done /\ ~scan.raised
    /\ scan.end > 0
    /\ scan.end - 1 \in Range(scan.result)
    /\ scan.end \in Range(Unbounded)
    /\ \E regex \in signature_set.regexes :
          /\ Len(Atoms(regex)) > 1
          /\ MatchAt(Atoms(regex), scan.data, scan.end - 1)
    /\ \A regex \in signature_set.regexes : Len(Atoms(regex)) > 0

\* C7: with the wildcard in the catalog, every position of the buffer below
\* the bound is a candidate, whatever the bytes.
C7_WildcardMatchesEveryByte ==
    (scan.done /\ ~scan.raised /\ WILDCARD \in CatalogConditions) =>
        \A p \in 0..(Len(scan.data) - 1) : p < scan.end => p \in Range(scan.result)

\* C8: no list of the catalog holds a condition twice, and the regex set has
\* one regex for each distinct condition of the catalog.
C8_OneMatcherPerCondition ==
    /\ \A offset \in DOMAIN signatures :
         \A i, j \in 1..Len(signatures[offset]) :
           signatures[offset][i] = signatures[offset][j] => i = j
    /\ Cardinality(build_signature_set(signatures)) = Cardinality(CatalogConditions)
    /\ (pc = "parse" /\ opened # {}) =>
          /\ signature_set.regexes = build_signature_set(signatures)
          /\ Cardinality(signature_set.regexes) = Cardinality(CatalogConditions)

\* the same condition admitted at two offsets gives one regex
C8_Witness ==
    /\ pc = "idle"
    /\ signature_count = 2
    /\ Cardinality(DOMAIN signatures) = 2
    /\ Cardinality(CatalogConditions) = 1
    /\ Cardinality(signature_set.regexes) = 1

\* value mod 2^16 after j shifts by 16 bits
RECURSIVE Limb16(_, _)
Limb16(value, j) == IF j = 0 THEN value % 65536 ELSE Limb16(value \div 65536, j - 1)

\* the bytes of the numeric lines, as the magic format defines them
NumericExpected ==
    (LineBelong :> <<0, 0, 18, 52>>) @@ (LineLeshort :> <<52, 18>>)
    @@ (LineByteX :> <<120>>) @@ (LineQuad :> <<1, 0, 0, 0, 0, 0, 0, 0>>)
    @@ (LineNeg :> <<255, 254>>)

\* C9: _to_string returns size bytes, byte i of the little-endian result is
\* (value >> 8i) & 0xFF, the big-endian result is its reverse, the bytes read
\* back as an unsigned integer are value mod 2^(8*size); and the condition of a
\* numeric entry is these bytes, its length their number.
C9_EncodeBytes ==
    /\ enc.done =>
         LET le == IF enc.endianess = LITTLE_ENDIAN THEN enc.result
                   ELSE Reverse(enc.result)
         IN  /\ Len(enc.result) = enc.size
             /\ \A i \in 0..(enc.size - 1) :
                  le[i + 1] = ShiftRight8(enc.value, i) % 256
             /\ enc.size = 1 => le[1] = enc.value % 256
             /\ \A j \in 0..((enc.size \div 2) - 1) :
                  le[2 * j + 1] + 256 * le[2 * j + 2] = Limb16(enc.value, j)
    /\ (entry.done /\ entry.line \in DOMAIN NumericExpected) =>
         /\ entry.result.kind = "entry"
         /\ entry.result.condition = NumericExpected[entry.line]
         /\ entry.result.length = Len(NumericExpected[entry.line])
    /\ (entry.done /\ entry.result.kind = "entry") =>
         entry.result.length = Len(entry.result.condition)

\* belong 0x1234 parsed, and 0x1234 encoded on 4 bytes big-endian
C9_Witness ==
    /\ entry.done
    /\ entry.line = LineBelong
    /\ entry.result.condition = <<0, 0, 18, 52>>
    /\ enc.done
    /\ enc.value = 4660 /\ enc.size = 4 /\ enc.endianess = BIG_ENDIAN
    /\ enc.result = <<0, 0, 18, 52>>

\* C10: whenever a load call has finished, by returning or by raising on a
\* malformed line, the regex set exists and is the compilation of the
\* catalog, so that a scan does not fail and misses no admitted condition.
C10_MatcherSetCurrent ==
    (LoadCalls # {} /\ (LastLoadReturned \/ LastLoadMalformed)) =>
        /\ pc = "idle" =>
              /\ signature_set.defined
              /\ signature_set.regexes = build_signature_set(signatures)
        /\ scan.done => ~scan.raised

====
